---------------------------- MODULE Spec2Model ----------------------------
(***************************************************************************)
(* Model of src/src/main.rs: generate_keys (genrsa) and get_key (getrsa).  *)
(*                                                                         *)
(* The program's state is the file system (KEYNAME.pem, KEYNAME.pri,       *)
(* KEYNAME.pub) and, per invocation, its position in the function and its  *)
(* locals.  Text is modelled at character level: a string is a sequence of *)
(* one-character strings, the standard output of a provider call is a      *)
(* sequence of lines.                                                      *)
(***************************************************************************)
EXTENDS Naturals, Sequences, FiniteSets, TLC

\* ------------------------------------------------------------------ bounds

\* Bytes per line of the provider's textual dump of a big number (openssl
\* prints 15; the model scales the keys and the line width down together).
DumpBytesPerLine == 2

\* ------------------------------------------------------- string operations

\* Option<T>: None is <<>>, Some(v) is <<v>>
None == <<>>
Some(v) == <<v>>

RECURSIVE Concat(_)
\* the concatenation of a sequence of strings
Concat(ss) == IF ss = <<>> THEN <<>> ELSE Head(ss) \o Concat(Tail(ss))

\* str::contains(pat)
Contains(s, pat) ==
    \E i \in 1..(Len(s) + 1) :
        /\ i + Len(pat) - 1 <= Len(s)
        /\ SubSeq(s, i, i + Len(pat) - 1) = pat

\* str::replace(ch, "")
ReplaceEmpty(s, ch) == SelectSeq(s, LAMBDA c : c # ch)

IsSpace(c) == c \in {" ", "\n", "\t", "\r"}

RECURSIVE TrimStart(_)
TrimStart(s) ==
    IF s # <<>> /\ IsSpace(Head(s)) THEN TrimStart(Tail(s)) ELSE s

RECURSIVE TrimEnd(_)
TrimEnd(s) ==
    IF s # <<>> /\ IsSpace(s[Len(s)])
    THEN TrimEnd(SubSeq(s, 1, Len(s) - 1))
    ELSE s

\* str::trim()
Trim(s) == TrimEnd(TrimStart(s))

\* str::strip_prefix(pre): the rest of s, or None
StripPrefix(s, pre) ==
    IF Len(s) >= Len(pre) /\ SubSeq(s, 1, Len(pre)) = pre
    THEN Some(SubSeq(s, Len(pre) + 1, Len(s)))
    ELSE None

UpperHex == <<"A", "B", "C", "D", "E", "F">>
LowerHex == <<"a", "b", "c", "d", "e", "f">>

LowerChar(c) ==
    IF \E i \in 1..6 : UpperHex[i] = c
    THEN LowerHex[CHOOSE i \in 1..6 : UpperHex[i] = c]
    ELSE c

\* str::to_lowercase()
ToLowercase(s) == [i \in 1..Len(s) |-> LowerChar(s[i])]

RECURSIVE SkipWhile(_, _)
\* Iterator::skip_while(|line| !line.contains(pat))
SkipWhile(lines, pat) ==
    IF lines # <<>> /\ ~Contains(Head(lines), pat)
    THEN SkipWhile(Tail(lines), pat)
    ELSE lines

\* Iterator::nth(1): the second remaining item, or None
Nth1(lines) == IF Len(lines) >= 2 THEN Some(lines[2]) ELSE None

RECURSIVE StripLeadingZeros(_)
StripLeadingZeros(s) ==
    IF s # <<>> /\ Head(s) = "0" THEN StripLeadingZeros(Tail(s)) ELSE s

\* the number written by a hexadecimal digit string is zero
IsZeroHex(s) == StripLeadingZeros(s) = <<>>

\* ------------------------------------------------- the external provider

PrivateExponentLabel ==
    <<"p","r","i","v","a","t","e","E","x","p","o","n","e","n","t",":">>
PublicExponentLine ==
    <<"p","u","b","l","i","c","E","x","p","o","n","e","n","t",":"," ",
      "6","5","5","3","7"," ","(","0","x","1","0","0","0","1",")">>
Prime1Label == <<"p","r","i","m","e","1",":">>
ModulusPrefix == <<"M","o","d","u","l","u","s","=">>

\* The keys the provider can produce: d as its big-endian bytes (two hex
\* digits each), n as the digit string `openssl rsa -modulus` prints.
\*   kA: d = 0x1234,   n = 0xABCD  (d fits on one dump line)
\*   kB: d = 0xc15a70, n = 0xBEEF  (d takes several dump lines, top bit set)
\*   kZ: a degenerate key, d = 0 and n = 0
KeyIds == {"kA", "kB", "kZ"}
KeyD(id) ==
    CASE id = "kA" -> << <<"1","2">>, <<"3","4">> >>
      [] id = "kB" -> << <<"c","1">>, <<"5","a">>, <<"7","0">> >>
      [] id = "kZ" -> << <<"0","0">> >>
KeyN(id) ==
    CASE id = "kA" -> <<"A","B","C","D">>
      [] id = "kB" -> <<"B","E","E","F">>
      [] id = "kZ" -> <<"0">>

\* lowercase minimal-digit hex of a key's complete private exponent / modulus
HexD(id) == StripLeadingZeros(ToLowercase(Concat(KeyD(id))))
HexN(id) == StripLeadingZeros(ToLowercase(KeyN(id)))

\* the dump pads a number whose top bit is set with a 00 byte
DumpBytes(bytes) ==
    IF Head(bytes)[1] \in {"8","9","a","b","c","d","e","f"}
    THEN << <<"0","0">> >> \o bytes
    ELSE bytes

\* line i of the dump of a big number: four spaces, then the bytes of the
\* line, each followed by ":" except the last byte of the number
DumpLine(bytes, i) ==
    LET lo == (i - 1) * DumpBytesPerLine + 1
        hi == IF i * DumpBytesPerLine < Len(bytes)
              THEN i * DumpBytesPerLine ELSE Len(bytes)
    IN  <<" "," "," "," ">> \o
        Concat([j \in 1..(hi - lo + 1) |->
                  IF lo + j - 1 = Len(bytes)
                  THEN bytes[lo + j - 1]
                  ELSE bytes[lo + j - 1] \o <<":">>])

DumpLines(bytes) ==
    LET nl == (Len(bytes) + DumpBytesPerLine - 1) \div DumpBytesPerLine
    IN  [i \in 1..nl |-> DumpLine(bytes, i)]

\* stdout of `openssl rsa -in PEM -text -noout`, as lines
RsaTextOf ==
    [id \in KeyIds |->
        <<PublicExponentLine, PrivateExponentLabel>>
            \o DumpLines(DumpBytes(KeyD(id))) \o <<Prime1Label>>]
RsaText(id) == RsaTextOf[id]

\* stdout of `openssl rsa -in PEM -modulus -noout`
RsaModulusOf == [id \in KeyIds |-> ModulusPrefix \o KeyN(id) \o <<"\n">>]
RsaModulus(id) == RsaModulusOf[id]

\* --------------------------------------------------------- the file system

KeyNames == {"a", "b"}
Procs == {"p1", "p2"}

\* faulty variants: a temporary file, a private resource, named without the
\* key name
TempPathShared(keyname) == "temp.pem"
PriPathShared(keyname) == "key.pri"

\* format!("{}.pem", keyname), format!("{}.pri", keyname), format!("{}.pub", keyname)
TempPath(keyname) == keyname \o ".pem"
PriPath(keyname) == keyname \o ".pri"
PubPath(keyname) == keyname \o ".pub"

\* the resources that belong to a key name
Res(keyname) == {TempPath(keyname), PriPath(keyname), PubPath(keyname)}
Paths == UNION {Res(k) : k \in KeyNames}

\* What a path holds: nothing, a zero-length file, bytes that are not valid
\* UTF-8 text, the provider's PEM of a key, or one of the two envelopes.
Missing == [kind |-> "missing"]
Empty == [kind |-> "empty"]
Unreadable == [kind |-> "unreadable"]
Pem(id) == [kind |-> "pem", key |-> id]
Envelope(label, payload) ==
    [kind |-> "envelope", label |-> label, base64of |-> payload]

\* lines 84-87: the private text; BASE64.encode is kept as a constructor of
\* its argument (the payload), which it maps injectively
PrivateKey(dv, nv) ==
    Envelope("RSA PRIVATE KEY", ToLowercase(dv) \o <<",">> \o ToLowercase(nv))

\* lines 89-92: the public text
PublicKey(nv) ==
    Envelope("RSA PUBLIC KEY", <<"1","0","0","0","1",",">> \o ToLowercase(nv))

\* lines 61-67: the line after the first one containing "privateExponent:",
\* spaces and colons removed; None when there is no such line
ParseD(stdout) ==
    LET line == Nth1(SkipWhile(stdout, PrivateExponentLabel))
    IN  IF line = None THEN None
        ELSE Some(ReplaceEmpty(ReplaceEmpty(line[1], " "), ":"))

\* lines 78-81
ParseN(stdout) == StripPrefix(Trim(stdout), ModulusPrefix)

\* what `openssl rsa -in PEM -text -noout` prints for the file at PEM: the
\* dump of the key it holds, nothing when there is no key to read
TextStdout(content) ==
    IF content.kind = "pem" THEN RsaText(content.key) ELSE <<>>

ModulusStdout(content) ==
    IF content.kind = "pem" THEN RsaModulus(content.key) ELSE <<>>

\* fs::read_to_string: Ok(text) or Err(kind)
ReadToString(content) ==
    CASE content.kind = "missing" -> [ok |-> FALSE, err |-> "NotFound"]
      [] content.kind = "unreadable" -> [ok |-> FALSE, err |-> "InvalidData"]
      [] OTHER -> [ok |-> TRUE, text |-> content]

\* faulty variant: a failed read is propagated with `?`
MatchReadPropagating(res, what, path) ==
    IF res.ok
    THEN [print |-> [kind |-> "key", what |-> what, text |-> res.text],
          err |-> None]
    ELSE [print |-> [kind |-> "not found", what |-> what, path |-> path],
          err |-> Some("io error")]

\* lines 110-113 and 117-120: the match on the read's result. What is
\* printed, and the error returned to the caller (None: execution goes on)
MatchRead(res, what, path) ==
    IF res.ok
    THEN [print |-> [kind |-> "key", what |-> what, text |-> res.text],
          err |-> None]
    ELSE [print |-> [kind |-> "not found", what |-> what, path |-> path],
          err |-> None]

\* ------------------------------------------------------------------- state

VARIABLES
    fs,         \* path -> content
    pc,         \* invocation -> position
    op,         \* invocation -> "none", "genrsa", "getrsa"
    key,        \* invocation -> keyname argument
    args,       \* invocation -> the pub_ and pri flags of get_key
    d,          \* invocation -> Option: local d of generate_keys
    n,          \* invocation -> Option: local n of generate_keys
    result,     \* invocation -> Option: "Ok" or the error returned
    printed,    \* invocation -> what get_key wrote to standard output
    wrote,      \* history: which of "pri", "pub" this invocation wrote
    produced,   \* history: Option: the key the provider generated for it
    pemGone,    \* history: it found the PEM it had created removed
    raced,      \* history: key names on which two generations overlapped
    acc         \* history: the last file access, [proc, path]

vars == <<fs, pc, op, key, args, d, n, result, printed, wrote, produced,
          pemGone, raced, acc>>

NoArgs == [pub |-> FALSE, pri |-> FALSE]
NoAcc == [proc |-> "none", path |-> "none"]

\* the files found before the first invocation: no PEM, and under each key
\* name either nothing or, where the environment may fail, files that are
\* not text
InitFs(faults) ==
    /\ fs \in [Paths -> {Missing} \cup (IF faults THEN {Unreadable} ELSE {})]
    /\ \A k \in KeyNames :
        /\ fs[TempPath(k)] = Missing
        /\ fs[PriPath(k)] = fs[PubPath(k)]

InitProcs ==
    /\ pc = [p \in Procs |-> "idle"]
    /\ op = [p \in Procs |-> "none"]
    /\ key = [p \in Procs |-> "a"]
    /\ args = [p \in Procs |-> NoArgs]
    /\ d = [p \in Procs |-> None]
    /\ n = [p \in Procs |-> None]
    /\ result = [p \in Procs |-> None]
    /\ printed = [p \in Procs |-> <<>>]
    /\ wrote = [p \in Procs |-> {}]
    /\ produced = [p \in Procs |-> None]
    /\ pemGone = [p \in Procs |-> FALSE]
    /\ raced = {}
    /\ acc = NoAcc

Running(q) == pc[q] \notin {"idle", "done"}

\* return Err(e) / Ok(())
Return(p, r) ==
    /\ pc' = [pc EXCEPT ![p] = "done"]
    /\ result' = [result EXCEPT ![p] = Some(r)]

Goto(p, label) ==
    /\ pc' = [pc EXCEPT ![p] = label]
    /\ UNCHANGED result

\* the file access of the step taken, if it makes one
Access(p, path) == acc' = [proc |-> p, path |-> path]
NoAccess == acc' = NoAcc

\* ----------------------------------------------------------- generate_keys

BitsChoices == {0, 512}

\* How a provider call can end.  Command::output() is an Err only when the
\* process cannot be started; a provider that runs and exits unsuccessfully
\* is an Ok whose stdout is whatever it printed.  `openssl genrsa` rejects
\* a bit length of 0 before it opens its output file; otherwise it writes a
\* key or, failing, may have opened (and truncated) the file or not.
\* `faults` says whether the environment may fail: provider processes that
\* cannot start or die, a provider that hands out a degenerate key, file
\* operations that are refused.
SoundKeys == {"kA", "kB"}
GenrsaOutcomes(bits, faults) ==
    IF bits = 0
    THEN {"exit, no file"} \cup (IF faults THEN {"spawn error"} ELSE {})
    ELSE SoundKeys \cup
         (IF faults
          THEN {"spawn error", "exit, no file", "exit, empty file"} \cup KeyIds
          ELSE {})
RsaOutcomes(faults) ==
    {"ok"} \cup (IF faults THEN {"spawn error", "exit, no output"} ELSE {})
WriteOutcomes(faults) ==
    {"ok"} \cup (IF faults THEN {"create failed", "write failed"} ELSE {})
RemoveOutcomes(faults) == {"ok"} \cup (IF faults THEN {"failed"} ELSE {})

\* the call generate_keys(k, bits) and lines 43-49
Genrsa(p, faults) ==
    /\ pc[p] = "idle"
    /\ \E k \in KeyNames, bits \in BitsChoices :
       \E oc \in GenrsaOutcomes(bits, faults) :
        /\ op' = [op EXCEPT ![p] = "genrsa"]
        /\ key' = [key EXCEPT ![p] = k]
        /\ raced' = IF \E q \in Procs \ {p} :
                          Running(q) /\ op[q] = "genrsa" /\ key[q] = k
                    THEN raced \cup {k} ELSE raced
        /\ IF oc = "spawn error"
           THEN /\ Return(p, "Failed to generate RSA key")
                /\ NoAccess
                /\ UNCHANGED <<fs, produced>>
           ELSE /\ Goto(p, "text")
                /\ Access(p, TempPath(k))
                /\ fs' = CASE oc = "exit, no file" -> fs
                           [] oc = "exit, empty file" ->
                                [fs EXCEPT ![TempPath(k)] = Empty]
                           [] OTHER -> [fs EXCEPT ![TempPath(k)] = Pem(oc)]
                /\ produced' = [produced EXCEPT ![p] =
                                    IF oc \in KeyIds THEN Some(oc) ELSE None]
    /\ UNCHANGED <<args, d, n, printed, wrote, pemGone>>

\* the PEM this invocation's provider call created is no longer there
FoundGone(p) == produced[p] # None /\ fs[TempPath(key[p])] = Missing

\* lines 52-67 (the provider's output is ASCII: String::from_utf8 succeeds)
ExtractD(p, faults) ==
    /\ pc[p] = "text"
    /\ \E oc \in RsaOutcomes(faults) :
        IF oc = "spawn error"
        THEN /\ Return(p, "Failed to extract private exponent")
             /\ NoAccess
             /\ UNCHANGED <<d, pemGone>>
        ELSE LET stdout == IF oc = "ok"
                           THEN TextStdout(fs[TempPath(key[p])]) ELSE <<>>
                 dv == ParseD(stdout)
             IN  /\ Access(p, TempPath(key[p]))
                 /\ pemGone' = [pemGone EXCEPT ![p] = @ \/ FoundGone(p)]
                 /\ IF dv = None
                    THEN /\ Return(p, "Could not find private exponent")
                         /\ UNCHANGED d
                    ELSE /\ Goto(p, "modulus")
                         /\ d' = [d EXCEPT ![p] = dv]
    /\ UNCHANGED <<fs, op, key, args, n, printed, wrote, produced, raced>>

\* lines 70-81
ExtractN(p, faults) ==
    /\ pc[p] = "modulus"
    /\ \E oc \in RsaOutcomes(faults) :
        IF oc = "spawn error"
        THEN /\ Return(p, "Failed to extract modulus")
             /\ NoAccess
             /\ UNCHANGED <<n, pemGone>>
        ELSE LET stdout == IF oc = "ok"
                           THEN ModulusStdout(fs[TempPath(key[p])]) ELSE <<>>
                 nv == ParseN(stdout)
             IN  /\ Access(p, TempPath(key[p]))
                 /\ pemGone' = [pemGone EXCEPT ![p] = @ \/ FoundGone(p)]
                 /\ IF nv = None
                    THEN /\ Return(p, "Invalid modulus format")
                         /\ UNCHANGED n
                    ELSE /\ Goto(p, "write pri")
                         /\ n' = [n EXCEPT ![p] = nv]
    /\ UNCHANGED <<fs, op, key, args, d, printed, wrote, produced, raced>>

\* fs::write(path, text): create (truncating) and write; what the path holds
\* after each way the call can end
Written(old, text, oc) ==
    CASE oc = "ok" -> text
      [] oc = "create failed" -> old
      [] oc = "write failed" -> Empty

\* line 95
WritePri(p, faults) ==
    /\ pc[p] = "write pri"
    /\ \E oc \in WriteOutcomes(faults) :
        LET path == PriPath(key[p])
        IN  /\ fs' = [fs EXCEPT ![path] =
                        Written(@, PrivateKey(d[p][1], n[p][1]), oc)]
            /\ Access(p, path)
            /\ IF oc = "ok"
               THEN /\ Goto(p, "write pub")
                    /\ wrote' = [wrote EXCEPT ![p] = @ \cup {"pri"}]
               ELSE /\ Return(p, "io error")
                    /\ UNCHANGED wrote
    /\ UNCHANGED <<op, key, args, d, n, printed, produced, pemGone, raced>>

\* line 96
WritePub(p, faults) ==
    /\ pc[p] = "write pub"
    /\ \E oc \in WriteOutcomes(faults) :
        LET path == PubPath(key[p])
        IN  /\ fs' = [fs EXCEPT ![path] = Written(@, PublicKey(n[p][1]), oc)]
            /\ Access(p, path)
            /\ IF oc = "ok"
               THEN /\ Goto(p, "remove")
                    /\ wrote' = [wrote EXCEPT ![p] = @ \cup {"pub"}]
               ELSE /\ Return(p, "io error")
                    /\ UNCHANGED wrote
    /\ UNCHANGED <<op, key, args, d, n, printed, produced, pemGone, raced>>

\* lines 99-105
RemovePem(p, faults) ==
    /\ pc[p] = "remove"
    /\ \E oc \in RemoveOutcomes(faults) :
        LET path == TempPath(key[p])
        IN  /\ Access(p, path)
            /\ pemGone' = [pemGone EXCEPT ![p] = @ \/ FoundGone(p)]
            /\ IF oc = "ok" /\ fs[path] # Missing
               THEN /\ fs' = [fs EXCEPT ![path] = Missing]
                    /\ Return(p, "Ok")
               ELSE /\ UNCHANGED fs
                    /\ Return(p, "io error")
    /\ UNCHANGED <<op, key, args, d, n, printed, wrote, produced, raced>>

\* ----------------------------------------------------------------- get_key

ArgChoices == [pub : BOOLEAN, pri : BOOLEAN]

\* the call get_key(k, pub_, pri) and lines 109-114
GetPub(p) ==
    /\ pc[p] = "idle"
    /\ \E k \in KeyNames, a \in ArgChoices :
        /\ op' = [op EXCEPT ![p] = "getrsa"]
        /\ key' = [key EXCEPT ![p] = k]
        /\ args' = [args EXCEPT ![p] = a]
        /\ IF a.pub
           THEN LET m == MatchRead(ReadToString(fs[PubPath(k)]), "pub",
                                   PubPath(k))
                IN  /\ Access(p, PubPath(k))
                    /\ printed' = [printed EXCEPT ![p] = <<m.print>>]
                    /\ IF m.err = None
                       THEN Goto(p, "get pri")
                       ELSE Return(p, m.err[1])
           ELSE /\ Goto(p, "get pri")
                /\ NoAccess
                /\ UNCHANGED printed
    /\ UNCHANGED <<fs, d, n, wrote, produced, pemGone, raced>>

\* lines 116-127
GetPri(p) ==
    /\ pc[p] = "get pri"
    /\ IF args[p].pri
       THEN LET m == MatchRead(ReadToString(fs[PriPath(key[p])]), "pri",
                               PriPath(key[p]))
            IN  /\ Access(p, PriPath(key[p]))
                /\ printed' = [printed EXCEPT ![p] = Append(@, m.print)]
                /\ Return(p, IF m.err = None THEN "Ok" ELSE m.err[1])
       ELSE /\ printed' = [printed EXCEPT ![p] =
                             IF args[p].pub THEN @
                             ELSE Append(@, [kind |-> "specify a flag"])]
            /\ Return(p, "Ok")
            /\ NoAccess
    /\ UNCHANGED <<fs, op, key, args, d, n, wrote, produced, pemGone, raced>>

\* lines 130-141: main returns; the next invocation starts afresh
Exit(p) ==
    /\ pc[p] = "done"
    /\ pc' = [pc EXCEPT ![p] = "idle"]
    /\ op' = [op EXCEPT ![p] = "none"]
    /\ key' = [key EXCEPT ![p] = "a"]
    /\ args' = [args EXCEPT ![p] = NoArgs]
    /\ d' = [d EXCEPT ![p] = None]
    /\ n' = [n EXCEPT ![p] = None]
    /\ result' = [result EXCEPT ![p] = None]
    /\ printed' = [printed EXCEPT ![p] = <<>>]
    /\ wrote' = [wrote EXCEPT ![p] = {}]
    /\ produced' = [produced EXCEPT ![p] = None]
    /\ pemGone' = [pemGone EXCEPT ![p] = FALSE]
    /\ NoAccess
    /\ UNCHANGED <<fs, raced>>

\* ----------------------------------------------------------- specifications

Step(p, faults) ==
    \/ Genrsa(p, faults) \/ ExtractD(p, faults) \/ ExtractN(p, faults)
    \/ WritePri(p, faults) \/ WritePub(p, faults) \/ RemovePem(p, faults)
    \/ GetPub(p) \/ GetPri(p) \/ Exit(p)

\* Section 5's model: one invocation at a time, each run to completion, in
\* an environment that may fail
Init == InitFs(TRUE) /\ InitProcs
Next == Step("p1", TRUE)
Spec == Init /\ [][Next]_vars

\* unsynchronized invocations, steps interleaved at the provider calls and
\* the file operations, in an environment that does not fail
InitConc == InitFs(FALSE) /\ InitProcs
NextConc == \E p \in Procs : Step(p, FALSE)
SpecConc == InitConc /\ [][NextConc]_vars

\* ------------------------------------------------------------------ claims

GenDone(p) == pc[p] = "done" /\ op[p] = "genrsa"
GetDone(p) == pc[p] = "done" /\ op[p] = "getrsa"
IsOk(p) == result[p] = Some("Ok")
Both == {"pri", "pub"}

\* what the code extracts from the provider's output for key id
CodeDOf == [id \in KeyIds |-> ParseD(RsaText(id))[1]]
CodeNOf == [id \in KeyIds |-> ParseN(RsaModulus(id))[1]]
CodeD(id) == CodeDOf[id]
CodeN(id) == CodeNOf[id]
\* the private texts whose two fields come from one provider key
UnmixedPri == {PrivateKey(CodeD(id), CodeN(id)) : id \in KeyIds}

RECURSIVE AfterComma(_)
\* the second field of a payload: what follows its first comma
AfterComma(s) ==
    IF s = <<>> THEN <<>>
    ELSE IF Head(s) = "," THEN Tail(s) ELSE AfterComma(Tail(s))

\* the modulus field of a persisted text is that of key id
HoldsModulusOf(content, id) ==
    /\ content.kind = "envelope"
    /\ AfterComma(content.base64of) = ToLowercase(KeyN(id))

\* C1: when generate_keys has returned, it wrote both K.pri and K.pub or
\* neither, and on success it wrote both.
C1_NoPartialPair ==
    \A p \in Procs :
        GenDone(p) =>
            IF IsOk(p) THEN wrote[p] = Both ELSE wrote[p] \in {{}, Both}

\* C2: when the provider's key generation produced no key (it could not be
\* started, or ran and exited unsuccessfully), generate_keys returns an
\* error and has written neither K.pri nor K.pub.
C2_ProviderFailureWritesNothing ==
    \A p \in Procs :
        (GenDone(p) /\ produced[p] = None) => (~IsOk(p) /\ wrote[p] = {})

\* C3: for a key with 0 < d and 0 < n, after a successful generate_keys the
\* payload of K.pri is lowercase-hex(d) "," lowercase-hex(n) for the
\* provider's complete private exponent d.
C3_PrivatePayload ==
    \A p \in Procs :
        (/\ GenDone(p) /\ IsOk(p) /\ produced[p] # None
         /\ ~IsZeroHex(HexD(produced[p][1]))
         /\ ~IsZeroHex(HexN(produced[p][1])))
        => fs[PriPath(key[p])] =
              Envelope("RSA PRIVATE KEY",
                       HexD(produced[p][1]) \o <<",">> \o HexN(produced[p][1]))

\* C4: when the extracted d or n is zero (or empty), generate_keys fails and
\* writes neither text.
C4_DegenerateRejected ==
    \A p \in Procs :
        (/\ GenDone(p) /\ d[p] # None /\ n[p] # None
         /\ (IsZeroHex(d[p][1]) \/ IsZeroHex(n[p][1])))
        => (~IsOk(p) /\ wrote[p] = {})

\* C5: after generate_keys returns success, K.pri and K.pub both carry the
\* modulus of the key the provider produced in that invocation.
C5_BothHoldGeneratedModulus ==
    \A p \in Procs :
        (GenDone(p) /\ IsOk(p)) =>
            /\ produced[p] # None
            /\ HoldsModulusOf(fs[PriPath(key[p])], produced[p][1])
            /\ HoldsModulusOf(fs[PubPath(key[p])], produced[p][1])

\* what get_key printed about kind w
PrintsFor(p, w) ==
    SelectSeq(printed[p], LAMBDA e : e.kind # "specify a flag" /\ e.what = w)
PathOf(k, w) == IF w = "pub" THEN PubPath(k) ELSE PriPath(k)

\* C6: get_key returns success whatever is missing; for each requested kind
\* on its own, a missing resource gives exactly a "not found" notice for
\* that kind and a readable one is emitted; nothing is printed about a
\* kind that was not requested.
C6_MissingIsNotAnError ==
    \A p \in Procs :
        GetDone(p) =>
            /\ IsOk(p)
            /\ \A w \in Both :
                LET path == PathOf(key[p], w)
                    got == ReadToString(fs[path])
                IN  IF ~args[p][w]
                    THEN PrintsFor(p, w) = <<>>
                    ELSE /\ fs[path] = Missing =>
                              PrintsFor(p, w) = <<[kind |-> "not found",
                                                   what |-> w, path |-> path]>>
                         /\ got.ok =>
                              PrintsFor(p, w) = <<[kind |-> "key", what |-> w,
                                                   text |-> fs[path]]>>

\* a retrieval of both kinds under a key name whose public resource is
\* missing and whose private resource is there
C6_Witness ==
    \E p \in Procs :
        /\ GetDone(p) /\ args[p].pub /\ args[p].pri
        /\ fs[PubPath(key[p])] = Missing
        /\ fs[PriPath(key[p])].kind = "envelope"
        /\ Len(printed[p]) = 2

\* C7: a requested resource that exists but cannot be read as text makes
\* get_key return an error, and is not reported as "not found".
C7_ReadFailurePropagated ==
    \A p \in Procs :
        \A w \in Both :
            (GetDone(p) /\ args[p][w]
                /\ fs[PathOf(key[p], w)] = Unreadable)
            => /\ ~IsOk(p)
               /\ \A i \in 1..Len(PrintsFor(p, w)) :
                      PrintsFor(p, w)[i].kind # "not found"

\* C9: whenever generate_keys has returned after its provider call created
\* K.pem, K.pem no longer exists.
C9_TempRemovedOnReturn ==
    \A p \in Procs :
        (GenDone(p) /\ produced[p] # None) =>
            fs[TempPath(key[p])] = Missing

\* the file access of the last step stays within the resources of the key
\* name of the invocation that made it
OwnFootprint ==
    acc.proc # "none" =>
        /\ acc.path \in Res(key[acc.proc])
        /\ \A k \in KeyNames \ {key[acc.proc]} : acc.path \notin Res(k)

\* a generation on a key name no other generation ever overlapped ends as
\* it does alone: without a key from the provider it fails at the first
\* extraction, with one it succeeds on that key's fields
AsInIsolation(p) ==
    IF produced[p] = None
    THEN result[p] = Some("Could not find private exponent") /\ wrote[p] = {}
    ELSE /\ IsOk(p) /\ wrote[p] = Both
         /\ d[p] = Some(CodeD(produced[p][1]))
         /\ n[p] = Some(CodeN(produced[p][1]))

\* C8: invocations on different key names are independent: every step
\* reads, writes or deletes only resources of its own key name, which belong
\* to no other key name, a step changes no file but the one it accesses,
\* and a generation interleaved only with invocations on other key names
\* ends as it does in isolation.
C8_KeyNamesIndependent ==
    /\ [](OwnFootprint
          /\ \A p \in Procs :
                (GenDone(p) /\ key[p] \notin raced) => AsInIsolation(p))
    /\ [][\A f \in Paths : fs'[f] # fs[f] => acc'.path = f]_vars

\* one generation has finished successfully between the steps of another
\* generation on a different key name
C8_Witness ==
    \E p, q \in Procs :
        /\ key[p] # key[q]
        /\ op[p] = "genrsa" /\ pc[p] = "write pub"
        /\ GenDone(q) /\ IsOk(q) /\ acc.proc = q

\* the fields a private text carries come from two different provider keys
MixedFields(dv, nv) ==
    ~\E id \in KeyIds : dv = CodeD(id) /\ nv = CodeN(id)
MixedPri(k) ==
    /\ fs[PriPath(k)].kind = "envelope"
    /\ fs[PriPath(k)] \notin UnmixedPri
\* no generation is running on k, and K.pri and K.pub carry different moduli
MismatchedPair(k) ==
    /\ \A p \in Procs : ~(Running(p) /\ op[p] = "genrsa" /\ key[p] = k)
    /\ fs[PriPath(k)].kind = "envelope"
    /\ fs[PubPath(k)].kind = "envelope"
    /\ AfterComma(fs[PriPath(k)].base64of) # AfterComma(fs[PubPath(k)].base64of)

\* C10: generations on the same key name share K.pem, K.pri and K.pub
\* without synchronization; a private text with d and n from different
\* keys, a persisted pair with different moduli and a generation that finds
\* its K.pem removed all occur, and only on a key name on which two
\* generations overlapped.
C10_SameKeyNameRaces ==
    /\ \A p \in Procs :
          /\ (d[p] # None /\ n[p] # None /\ MixedFields(d[p][1], n[p][1]))
                => key[p] \in raced
          /\ pemGone[p] => key[p] \in raced
    /\ \A k \in KeyNames :
          (MixedPri(k) \/ MismatchedPair(k)) => k \in raced

\* all three outcomes of the race, in one state
C10_Witness ==
    /\ \E k \in KeyNames : MixedPri(k)
    /\ \E k \in KeyNames : MismatchedPair(k)
    /\ \E p \in Procs : GenDone(p) /\ pemGone[p] /\ ~IsOk(p)

=============================================================================
